---- MODULE Spec2Model ----
(***************************************************************************)
(* The data-grid extension: the panel controller (HelloWorldPanel), the    *)
(* kernel code-runner (_runCode), the message bridge and the webview       *)
(* renderer (App), as one state machine.                                   *)
(*                                                                         *)
(* A panel is identified by the order of its creation.  Every await of     *)
(* the source is a point where other handlers may run, so each             *)
(* continuation between two awaits is one action.                          *)
(***************************************************************************)
EXTENDS Integers, Sequences, FiniteSets, TLC

(* ------------------------------ bounds -------------------------------- *)

\* Panels created during one extension activation.
MaxPanels == 2
\* Columns and rows of a dataset.
MaxCols == 2
MaxRows == 2
\* Update messages sent to one App, in the App specification.
MaxUpdates == 2
\* Clicks of the Refresh button per webview.
MaxClicks == 1
\* Output items of one kernel stream, in the _runCode specification.
MaxChunks == 2
\* Calls of _runCode, in the _runCode specification.
MaxCalls == 2
\* Messages of other commands posted per webview, in the listener specification.
MaxOthers == 2
\* Calls and loop iterations followed within one call of dispose().
MaxSteps == 8

Panels == 1..MaxPanels

(* ------------------------- values of the program ---------------------- *)

\* The JavaScript value undefined.
Undefined == [undefined |-> TRUE]

\* An array held in a slot that may also hold undefined.
Arr(s) == [array |-> s]

DataFrameFunc == "_VSCODE_getDataFrame"
cleanupCode == "try: del _VSCODE_getDataFrame except: pass"
\* NotebookCellOutputItem.error(new Error('')).mime
ErrorMimeType == "application/vnd.code.notebook.error"
TextMimeType == "text/plain"

\* The width the renderer gives every column.
ColumnWidth == 100

\* The names the variable inspector can hand to showDataGrid.
Variables == {"df"}

\* showHelloWorld passes undefined, showDataGrid passes data.variable.name.
VariableArgs == {Undefined} \cup {[name |-> v] : v \in Variables}

\* JavaScript truthiness of the variable argument (line 65).
Truthy(variable) == variable # Undefined /\ variable.name # ""

\* a ?? b
Coalesce(a, b) == IF a = Undefined THEN b ELSE a

VARIABLES
    currentPanel,   \* HelloWorldPanel.currentPanel: 0 (undefined) or a panel
    created,        \* number of panels constructed so far
    panel,          \* panel[p]: the fields of HelloWorldPanel p and of its WebviewPanel
    run,            \* run[p]: the _runCode frame of panel p
    executing,      \* the executions in flight in the kernel: <<panel, mode>>
    kernelRows,     \* the rows each variable of the kernel's namespace holds
    webview         \* webview[p]: the App in panel p's webview, and the two channels

vars == <<currentPanel, created, panel, run, executing, kernelRows, webview>>

(* ----------------------------- the kernel ----------------------------- *)

\* The columns of the variables in the kernel's namespace, and the numbers of
\* rows they may hold.
Cols(v) == <<"a", "b">>
KernelRowCounts == {0, 2}

\* The value in row i, column j of every dataset.
Cell(i, j) == <<i, j>>

\* DataFrameValues of m rows under the columns cols.
Dataset(cols, m) ==
    [columns |-> cols,
     index |-> [i \in 1..m |-> i - 1],
     data |-> [i \in 1..m |-> [j \in 1..Len(cols) |-> Cell(i, j)]]]

\* DataFrameColumns, as the helper reports it for variable v holding m rows.
DataFrameColumns(v, m) ==
    [columns |-> [j \in 1..Len(Cols(v)) |->
                    [key |-> Cols(v)[j], name |-> Cols(v)[j], type |-> "int64"]],
     indexColumn |-> "index",
     rowCount |-> m]

\* DataFrameValues, as the helper reports m rows of variable v.
DataFrameValues(v, m) == Dataset(Cols(v), m)

(* ------------------------ text, bytes and JSON ------------------------ *)

\* A byte string is a sequence of bytes and a text a sequence of characters.
\* An ASCII byte and its character are written alike; "C3" "A9" are the two
\* bytes of U+00E9.  The helper's JSON documents are abbreviated to a few
\* characters each (Documents).
Digits == <<"0", "1", "2", "3", "4", "5", "6", "7", "8", "9">>

\* `${n}` in a template literal, for an integer n: its decimal digits, after
\* a minus sign when it is negative.
RECURSIVE NumberText(_)
NumberText(n) ==
    IF n < 0 THEN <<"-">> \o NumberText(-n)
    ELSE IF n < 10 THEN <<Digits[n + 1]>>
    ELSE NumberText(n \div 10) \o <<Digits[(n % 10) + 1]>>

\* The integer a Python integer literal denotes.
RECURSIVE PythonInt(_)
PythonInt(text) ==
    IF Head(text) = "-" THEN -PythonInt(Tail(text))
    ELSE LET last == CHOOSE k \in 0..9 : Digits[k + 1] = text[Len(text)]
         IN  IF Len(text) = 1 THEN last
             ELSE 10 * PythonInt(SubSeq(text, 1, Len(text) - 1)) + last

\* new TextDecoder().decode(bytes): UTF-8, not fatal, no streaming, so a
\* sequence cut by the end of the chunk decodes to U+FFFD.
RECURSIVE Decode(_)
Decode(bytes) ==
    IF bytes = <<>> THEN <<>>
    ELSE IF bytes[1] = "C3"
         THEN IF Len(bytes) >= 2 /\ bytes[2] = "A9"
              THEN <<"U+00E9">> \o Decode(Tail(Tail(bytes)))
              ELSE <<"U+FFFD">> \o Decode(Tail(bytes))
    ELSE IF bytes[1] = "A9"
         THEN <<"U+FFFD">> \o Decode(Tail(bytes))
    ELSE <<bytes[1]>> \o Decode(Tail(bytes))

SyntaxError == [error |-> "SyntaxError"]
Null == [null |-> TRUE]

\* The text of the error object NotebookCellOutputItem.error serialises.
ErrorDocument == <<"{", "e", "}">>

InfoDocument(v, m) == <<"{", v, Digits[m + 1], "}">>
RowsDocument(v, m) == <<"[", v, Digits[m + 1], "]">>

\* The JSON texts of the model and the values they denote.
Documents ==
    {[text |-> InfoDocument(v, m), value |-> DataFrameColumns(v, m)] :
        v \in Variables, m \in 0..MaxRows}
    \cup {[text |-> RowsDocument(v, m), value |-> DataFrameValues(v, m)] :
        v \in Variables, m \in 0..MaxRows}
    \cup {[text |-> ErrorDocument,
           value |-> [name |-> "Error", message |-> "", stack |-> ""]],
          [text |-> <<"n">>, value |-> Null]}

IsPrefix(s, t) == Len(s) <= Len(t) /\ SubSeq(t, 1, Len(s)) = s

\* JSON.parse(text): the value, or SyntaxError when it throws.
JSONParse(text) ==
    IF \E d \in Documents : d.text = text
    THEN (CHOOSE d \in Documents : d.text = text).value
    ELSE SyntaxError

\* streamingOutput.join('')
RECURSIVE Join(_)
Join(texts) == IF texts = <<>> THEN <<>> ELSE Head(texts) \o Join(Tail(texts))

(* ------------------------ code-template assembly ---------------------- *)

\* The text of pythonFiles/vscodeDataFrame.py, read at lines 125 and 134.
initializeCode == "vscodeDataFrame.py"

\* _generateCodeForDataFrameColumns: `${initializeCode}\n\n${code}\n\n${cleanupCode}`,
\* the three parts in their order.
GenerateCodeForDataFrameColumns(variableName) ==
    <<initializeCode,
      [func |-> DataFrameFunc, mode |-> "info", flag |-> "False",
       variable |-> variableName],
      cleanupCode>>

\* GenerateCodeForDataFrameRows with the two indices in each other's place.
GenerateCodeForDataFrameRowsSwapped(variableName, startIndex, endIndex) ==
    <<initializeCode,
      [func |-> DataFrameFunc, mode |-> "rows", flag |-> "False",
       variable |-> variableName,
       startIndex |-> NumberText(endIndex), endIndex |-> NumberText(startIndex)],
      cleanupCode>>

\* _generateCodeForDataFrameRows: the same, the call carrying the two indices.
GenerateCodeForDataFrameRows(variableName, startIndex, endIndex) ==
    <<initializeCode,
      [func |-> DataFrameFunc, mode |-> "rows", flag |-> "False",
       variable |-> variableName,
       startIndex |-> NumberText(startIndex), endIndex |-> NumberText(endIndex)],
      cleanupCode>>

(* --------------------------- kernel streams --------------------------- *)

\* One NotebookCellOutputItem of the stream kernel.executeCode returns.
TextItem(bytes) == [mime |-> TextMimeType, data |-> bytes]
ErrorItem(bytes) == [mime |-> ErrorMimeType, data |-> bytes]

\* What the helper prints for a call: the schema of the variable, or its rows
\* startIndex..endIndex.
HelperDocument(call) ==
    IF call.mode = "info"
    THEN InfoDocument(call.variable, kernelRows)
    ELSE RowsDocument(call.variable,
            Cardinality({i \in 0..(kernelRows - 1) :
                            /\ PythonInt(call.startIndex) <= i
                            /\ i <= PythonInt(call.endIndex)}))

\* A stream: the items the kernel yields, and whether the iteration then ends
\* or throws.  The streams the kernel may answer a document with: the document
\* whole or in two chunks, an error instead of it or after its first chunk, an
\* error item that is no JSON, and an iteration that throws.
KernelStreams(doc) ==
    {[items |-> <<TextItem(doc)>>, fails |-> FALSE],
     [items |-> <<TextItem(SubSeq(doc, 1, 1)), TextItem(SubSeq(doc, 2, Len(doc)))>>,
      fails |-> FALSE],
     [items |-> <<ErrorItem(ErrorDocument)>>, fails |-> FALSE],
     [items |-> <<TextItem(SubSeq(doc, 1, 1)), ErrorItem(ErrorDocument)>>,
      fails |-> FALSE],
     [items |-> <<ErrorItem(<<"a">>)>>, fails |-> FALSE],
     [items |-> <<>>, fails |-> TRUE]}

\* The byte strings of the items of an arbitrary stream.
ChunkData == {<<>>, <<"a">>, <<"C3">>, <<"A9">>, <<"C3", "A9">>, <<"a", "C3">>}

AllItems ==
    {TextItem(b) : b \in ChunkData}
    \cup {ErrorItem(b) : b \in {ErrorDocument, <<"n">>, <<"a">>}}

SeqsUpTo(S, n) == UNION {[1..k -> S] : k \in 0..n}

\* Every stream of at most MaxChunks items.
AllStreams ==
    {[items |-> its, fails |-> f] : its \in SeqsUpTo(AllItems, MaxChunks), f \in BOOLEAN}

(* ------------------------------ _runCode ------------------------------ *)

\* The frame of a _runCode call: its locals, what the kernel's iterator has
\* yielded so far, and a record of what was created and disposed.
IdleFrame ==
    [state |-> "idle",            \* idle, running, returned, threw
     arrived |-> <<>>,            \* the items yielded so far, in arrival order
     streamingOutput |-> <<>>,
     result |-> <<>>,
     calls |-> 0,
     tokensCreated |-> 0,
     tokensDisposed |-> 0,
     requests |-> <<>>]           \* the code of every call, oldest first

\* Lines 99-103: the token source, the decoder, the empty list, executeCode.
CallRunCode(f, code) ==
    [f EXCEPT !.state = "running",
              !.arrived = <<>>,
              !.streamingOutput = <<>>,
              !.result = <<>>,
              !.calls = @ + 1,
              !.tokensCreated = @ + 1,
              !.requests = Append(@, code)]

\* Line 106: JSON.parse of the decoded error item, then error.name.
ErrorItemThrows(output) == JSONParse(Decode(output.data)) \in {SyntaxError, Null}

\* ProcessOutputs with the else branch also taken for an error item.
RECURSIVE ProcessOutputsKeepsErrors(_, _)
ProcessOutputsKeepsErrors(outputs, streamingOutput) ==
    IF outputs = <<>> THEN [streamingOutput |-> streamingOutput, threw |-> FALSE]
    ELSE IF Head(outputs).mime = ErrorMimeType /\ ErrorItemThrows(Head(outputs))
         THEN [streamingOutput |-> streamingOutput, threw |-> TRUE]
         ELSE ProcessOutputsKeepsErrors(Tail(outputs),
                             Append(streamingOutput, Decode(Head(outputs).data)))

\* Lines 104-113 for one `outputs` array: the new streamingOutput, and whether
\* an item threw.
RECURSIVE ProcessOutputs(_, _)
ProcessOutputs(outputs, streamingOutput) ==
    IF outputs = <<>> THEN [streamingOutput |-> streamingOutput, threw |-> FALSE]
    ELSE IF Head(outputs).mime = ErrorMimeType
         THEN IF ErrorItemThrows(Head(outputs))
              THEN [streamingOutput |-> streamingOutput, threw |-> TRUE]
              ELSE ProcessOutputs(Tail(outputs), streamingOutput)
         ELSE ProcessOutputs(Tail(outputs),
                             Append(streamingOutput, Decode(Head(outputs).data)))

\* Lines 115-117: finally { tokenSource.dispose() }.
Finally(f) == [f EXCEPT !.tokensDisposed = @ + 1]

\* ThrowFromTry with the dispose after the loop instead of in a finally block.
ThrowWithoutFinally(f) == [f EXCEPT !.state = "threw"]

\* An exception leaving the try block.
ThrowFromTry(f) == Finally([f EXCEPT !.state = "threw"])

\* Line 119, after the loop ended.
ReturnFromRunCode(f) ==
    [Finally(f) EXCEPT !.state = "returned", !.result = Join(f.streamingOutput)]

\* The caller has taken the outcome of the call: the frame and its locals are gone.
PopFrame(f) ==
    [f EXCEPT !.state = "idle",
              !.arrived = <<>>,
              !.streamingOutput = <<>>,
              !.result = <<>>]

(* ------------------------- the panel controller ----------------------- *)

\* A panel that has not been constructed yet.
NoPanel ==
    [pc |-> "absent",          \* where the constructor's work stands:
                               \* fallback, getKernel, noKernel, readInfo, runInfo,
                               \* readRows, runRows, done, rejected
     disposed |-> FALSE,       \* the WebviewPanel is disposed
     view |-> "none",          \* the WebviewPanel: shown by createWebviewPanel,
                               \* revealed by reveal, closed
     html |-> FALSE,           \* webview.html has been set
     listeners |-> {},         \* the listeners registered on the panel's events
     _disposables |-> <<>>,
     _columns |-> Undefined,
     _values |-> Undefined,
     variable |-> Undefined,   \* the variable initialize was called with
     disposeCalls |-> 0,       \* how often dispose() has run
     released |-> <<>>,        \* the disposables whose dispose() has run, in order
     disposing |-> FALSE]      \* a call of dispose() has not returned

NoWebview ==
    [loaded |-> FALSE,         \* the App is mounted and its listener installed
     toHost |-> <<>>,          \* messages posted by the webview, not yet delivered
     toWebview |-> <<>>,       \* messages posted by the host, not yet delivered
     gridColumns |-> <<>>,
     data |-> Arr(<<>>),
     rows |-> 0,
     cells |-> <<>>,           \* the last list passed to updateCells
     last |-> Undefined,       \* the last update message processed
     previous |-> Undefined,   \* the update message processed before it
     clicks |-> 0,
     others |-> 0]             \* messages of other commands posted to the host

Init ==
    /\ currentPanel = 0
    /\ created = 0
    /\ panel = [p \in Panels |-> NoPanel]
    /\ run = [p \in Panels |-> IdleFrame]
    /\ executing = {}
    /\ kernelRows \in KernelRowCounts
    /\ webview = [p \in Panels |-> NoWebview]

Live(p) == p <= created /\ ~panel[p].disposed

\* SetWebviewMessageListener without the _disposables argument.
SetWebviewMessageListenerUntracked(pr) ==
    [pr EXCEPT !.listeners = @ \cup {"onDidReceiveMessage"}]

\* _setWebviewMessageListener: onDidReceiveMessage(handler, undefined, _disposables).
SetWebviewMessageListener(pr) ==
    [pr EXCEPT !.listeners = @ \cup {"onDidReceiveMessage"},
               !._disposables = Append(@, "onDidReceiveMessage")]

\* _initializeWebview: the HTML, then the message listener.
InitializeWebview(pr) == SetWebviewMessageListener([pr EXCEPT !.html = TRUE])

\* Construct with _initializeWebview called before initialize as well.
ConstructInitialisesFirst(variable, jupyterApi, notebook) ==
    LET pr == InitializeWebview([NoPanel EXCEPT !.view = "shown",
                                                !.listeners = {"onDidDispose"},
                                                !._disposables = <<"onDidDispose">>])
    IN  IF jupyterApi /\ Truthy(variable) /\ notebook
        THEN [pr EXCEPT !.pc = "getKernel", !.variable = variable]
        ELSE [pr EXCEPT !.pc = "fallback"]

\* The constructor: the onDidDispose listener, then initialize or the fallback.
Construct(variable, jupyterApi, notebook) ==
    LET pr == [NoPanel EXCEPT !.view = "shown",
                              !.listeners = {"onDidDispose"},
                              !._disposables = <<"onDidDispose">>]
    IN  IF jupyterApi /\ Truthy(variable) /\ notebook
        THEN [pr EXCEPT !.pc = "getKernel", !.variable = variable]
        ELSE [InitializeWebview(pr) EXCEPT !.pc = "fallback"]

\* Render without the test of currentPanel.
RenderAlwaysCreates(variable, jupyterApi, notebook) ==
    /\ UNCHANGED <<run, executing, kernelRows, webview>>
    /\ created < MaxPanels
    /\ created' = created + 1
    /\ currentPanel' = created + 1
    /\ panel' = [panel EXCEPT ![created + 1] = Construct(variable, jupyterApi, notebook)]

\* Render with the live panel pointed at the variable of the call, and its
\* fetch sequence started again.
RenderRestartsFetch(variable, jupyterApi, notebook) ==
    /\ UNCHANGED <<run, executing, kernelRows, webview>>
    /\ IF currentPanel # 0
       THEN /\ UNCHANGED <<currentPanel, created>>
            /\ panel' = [panel EXCEPT
                   ![currentPanel] =
                      IF variable # @.variable /\ Truthy(variable)
                      THEN [@ EXCEPT !.view = "revealed", !.variable = variable,
                                     !.pc = "getKernel", !._columns = Undefined,
                                     !._values = Undefined]
                      ELSE [@ EXCEPT !.view = "revealed"]]
       ELSE /\ created < MaxPanels
            /\ created' = created + 1
            /\ currentPanel' = created + 1
            /\ panel' = [panel EXCEPT ![created + 1] =
                            Construct(variable, jupyterApi, notebook)]

\* HelloWorldPanel.render.  jupyterApi: the Jupyter extension is installed;
\* notebook: there is an active notebook editor.
Render(variable, jupyterApi, notebook) ==
    /\ UNCHANGED <<run, executing, kernelRows, webview>>
    /\ IF currentPanel # 0
       THEN /\ UNCHANGED <<currentPanel, created>>
            /\ panel' = [panel EXCEPT ![currentPanel].view = "revealed"]
       ELSE /\ created < MaxPanels
            /\ created' = created + 1
            /\ currentPanel' = created + 1
            /\ panel' = [panel EXCEPT ![created + 1] =
                            Construct(variable, jupyterApi, notebook)]

\* The order in which pop() takes the elements of an array.
Reverse(s) == [i \in 1..Len(s) |-> s[Len(s) + 1 - i]]

\* Lines 183-188: every disposable is popped and disposed, which removes the
\* listener it stands for.
PopDisposables(pr) ==
    [pr EXCEPT !.listeners = @ \ {pr._disposables[i] : i \in 1..Len(pr._disposables)},
               !.released = @ \o Reverse(pr._disposables),
               !._disposables = <<>>]

\* Dispose without line 177: currentPanel keeps its value.
DisposeKeepsCurrentPanel(p, pr) ==
    /\ UNCHANGED currentPanel
    /\ panel' = [panel EXCEPT ![p] =
                    PopDisposables([pr EXCEPT !.disposeCalls = @ + 1])]

\* dispose() on panel p, whose fields are pr when it is called.  The
\* WebviewPanel is disposed already, so _panel.dispose() at line 180 does
\* nothing.
Dispose(p, pr) ==
    /\ currentPanel' = 0
    /\ panel' = [panel EXCEPT ![p] =
                    PopDisposables([pr EXCEPT !.disposeCalls = @ + 1])]

\* ClosePanel with the running execution cancelled and initialize stopped.
ClosePanelCancels(p) ==
    /\ Live(p)
    /\ LET closed == [panel[p] EXCEPT !.disposed = TRUE, !.view = "closed",
                         !.pc = IF @ \in {"getKernel", "readInfo", "runInfo",
                                          "readRows", "runRows"}
                                THEN "rejected" ELSE @]
       IN  IF "onDidDispose" \in panel[p].listeners
           THEN Dispose(p, closed)
           ELSE /\ panel' = [panel EXCEPT ![p] = closed]
                /\ UNCHANGED currentPanel
    /\ webview' = [webview EXCEPT ![p] = [NoWebview EXCEPT !.toHost = webview[p].toHost]]
    /\ run' = [run EXCEPT ![p] = IF @.state = "running" THEN PopFrame(Finally(@)) ELSE @]
    /\ executing' = {e \in executing : e[1] # p}
    /\ UNCHANGED <<created, kernelRows>>

\* The user closes the panel: the WebviewPanel is disposed, its webview is
\* destroyed with the App in it (the messages it has posted stay on their way),
\* and onDidDispose fires, whose listener runs dispose().
ClosePanel(p) ==
    /\ Live(p)
    /\ LET closed == [panel[p] EXCEPT !.disposed = TRUE, !.view = "closed"]
       IN  IF "onDidDispose" \in panel[p].listeners
           THEN Dispose(p, closed)
           ELSE /\ panel' = [panel EXCEPT ![p] = closed]
                /\ UNCHANGED currentPanel
    /\ webview' = [webview EXCEPT ![p] = [NoWebview EXCEPT !.toHost = webview[p].toHost]]
    /\ UNCHANGED <<created, run, executing, kernelRows>>

(* ------------------------------ initialize ---------------------------- *)

\* getKernel resolves (line 81): with no kernel the continuation returns.
\* Otherwise it runs up to the readFile of _generateCodeForDataFrameColumns.
GetKernelResolved(p, kernelFound) ==
    /\ panel[p].pc = "getKernel"
    /\ panel' = [panel EXCEPT ![p].pc = IF kernelFound THEN "readInfo" ELSE "noKernel"]
    /\ UNCHANGED <<currentPanel, created, run, executing, kernelRows, webview>>

\* _runCode is entered with `code`, and the kernel starts the execution.
StartRunCode(p, code) ==
    /\ run' = [run EXCEPT ![p] = CallRunCode(@, code)]
    /\ executing' = executing \cup {<<p, code[2].mode>>}

\* IssueInfo with the two _runCode calls started together instead of awaited
\* in turn.
IssueInfoConcurrently(p) ==
    /\ panel[p].pc = "readInfo"
    /\ LET info == GenerateCodeForDataFrameColumns(panel[p].variable.name)
           rows == GenerateCodeForDataFrameRows(panel[p].variable.name, 0, -1)
       IN  /\ run' = [run EXCEPT ![p] = CallRunCode(CallRunCode(@, rows), info)]
           /\ executing' = executing \cup {<<p, "info">>, <<p, "rows">>}
    /\ panel' = [panel EXCEPT ![p].pc = "runInfo"]
    /\ UNCHANGED <<currentPanel, created, kernelRows, webview>>

\* Lines 86-87: the template has been read, the schema code is generated and
\* _runCode is called with it.
IssueInfo(p) ==
    /\ panel[p].pc = "readInfo"
    /\ StartRunCode(p, GenerateCodeForDataFrameColumns(panel[p].variable.name))
    /\ panel' = [panel EXCEPT ![p].pc = "runInfo"]
    /\ UNCHANGED <<currentPanel, created, kernelRows, webview>>

\* AfterInfo with the schema request issued again when it has failed.
AfterInfoRetries(p, f) ==
    LET value == JSONParse(f.result)
    IN  IF f.state = "threw" \/ value = SyntaxError
        THEN panel' = [panel EXCEPT ![p].pc = "readInfo"]
        ELSE panel' = [panel EXCEPT ![p]._columns = value,
                                    ![p].pc = IF value = Null THEN "rejected"
                                              ELSE "readRows"]

\* Lines 88-90, run when the first _runCode settles with frame f: the schema
\* result is parsed and stored and the rows code is generated, up to its
\* readFile; or the rejection of _runCode or of JSON.parse ends initialize.
AfterInfo(p, f) ==
    LET value == JSONParse(f.result)
    IN  IF f.state = "threw" \/ value = SyntaxError
        THEN panel' = [panel EXCEPT ![p].pc = "rejected"]
        ELSE panel' = [panel EXCEPT ![p]._columns = value,
                                    ![p].pc = IF value = Null THEN "rejected"
                                              ELSE "readRows"]

\* IssueRows with rowCount as the end index.
IssueRowsEndAtRowCount(p) ==
    /\ panel[p].pc = "readRows"
    /\ StartRunCode(p, GenerateCodeForDataFrameRows(panel[p].variable.name, 0,
                                                    panel[p]._columns.rowCount))
    /\ panel' = [panel EXCEPT ![p].pc = "runRows"]
    /\ UNCHANGED <<currentPanel, created, kernelRows, webview>>

\* Lines 90-91: the template has been read again and _runCode is called with
\* the rows code.
IssueRows(p) ==
    /\ panel[p].pc = "readRows"
    /\ StartRunCode(p, GenerateCodeForDataFrameRows(panel[p].variable.name, 0,
                                                    panel[p]._columns.rowCount - 1))
    /\ panel' = [panel EXCEPT ![p].pc = "runRows"]
    /\ UNCHANGED <<currentPanel, created, kernelRows, webview>>

\* Lines 92-94, run when the second _runCode settles with frame f: the rows
\* result is parsed and stored and the webview is initialised.  Setting the
\* HTML of a disposed webview may throw (htmlThrows).
AfterRows(p, f, htmlThrows) ==
    LET value == JSONParse(f.result)
    IN  IF f.state = "threw" \/ value = SyntaxError
        THEN panel' = [panel EXCEPT ![p].pc = "rejected"]
        ELSE IF htmlThrows /\ panel[p].disposed
        THEN panel' = [panel EXCEPT ![p]._values = value, ![p].pc = "rejected"]
        ELSE panel' = [panel EXCEPT ![p] =
                 InitializeWebview([@ EXCEPT !._values = value, !.pc = "done"])]

\* The promise of _runCode settles with frame f, and in the same turn the
\* continuation of its caller runs.  A call made outside initialize keeps
\* its outcome in the frame.
Settle(p, f) ==
    /\ executing' = {e \in executing : e[1] # p}
    /\ IF panel[p].pc = "runInfo"
       THEN AfterInfo(p, f) /\ run' = [run EXCEPT ![p] = PopFrame(f)]
       ELSE IF panel[p].pc = "runRows"
       THEN /\ \E htmlThrows \in BOOLEAN : AfterRows(p, f, htmlThrows)
            /\ run' = [run EXCEPT ![p] = PopFrame(f)]
       ELSE run' = [run EXCEPT ![p] = f] /\ UNCHANGED panel

\* The streams the kernel may answer the running call of p with.
StreamsOf(p) ==
    IF panel[p].pc \in {"runInfo", "runRows"}
    THEN KernelStreams(HelperDocument(run[p].requests[Len(run[p].requests)][2]))
    ELSE AllStreams

\* Lines 103-114: the iterator yields the next `outputs` array, the next k
\* items of a stream that begins with what has arrived.
RunCodeNext(p, k) ==
    /\ run[p].state = "running"
    /\ \E stream \in StreamsOf(p) :
          LET f == run[p]
              n == Len(f.arrived)
          IN  /\ IsPrefix(f.arrived, stream.items)
              /\ n + k <= Len(stream.items)
              /\ LET outputs == SubSeq(stream.items, n + 1, n + k)
                     r == ProcessOutputs(outputs, f.streamingOutput)
                 IN  IF r.threw
                     THEN Settle(p, ThrowFromTry([f EXCEPT !.arrived = @ \o outputs]))
                     ELSE /\ run' = [run EXCEPT
                                ![p].streamingOutput = r.streamingOutput,
                                ![p].arrived = @ \o outputs]
                          /\ UNCHANGED <<executing, panel>>
    /\ UNCHANGED <<currentPanel, created, kernelRows, webview>>

\* The iteration ends: the loop is left and the joined text returned.
RunCodeEnd(p) ==
    /\ run[p].state = "running"
    /\ \E stream \in StreamsOf(p) : stream.items = run[p].arrived /\ ~stream.fails
    /\ Settle(p, ReturnFromRunCode(run[p]))
    /\ UNCHANGED <<currentPanel, created, kernelRows, webview>>

\* The iteration throws.
RunCodeStreamThrows(p) ==
    /\ run[p].state = "running"
    /\ \E stream \in StreamsOf(p) : stream.items = run[p].arrived /\ stream.fails
    /\ Settle(p, ThrowFromTry(run[p]))
    /\ UNCHANGED <<currentPanel, created, kernelRows, webview>>

(* ------------------------ the bridge and the App ---------------------- *)

\* Refresh with the empty payload posted whether or not a dataset is loaded.
RefreshSendsEmpty(p) ==
    /\ webview' = [webview EXCEPT
            ![p].toHost = Tail(@),
            ![p].toWebview = Append(@,
                [command |-> "update",
                 data |-> [columns |-> <<>>, rows |-> <<>>]])]
    /\ UNCHANGED panel

\* Refresh with the dataset dropped once it is sent, so that the next one
\* finds none.
RefreshDropsDataset(p) ==
    /\ webview' = [webview EXCEPT
            ![p].toHost = Tail(@),
            ![p].toWebview = Append(@,
                [command |-> "update",
                 data |-> Coalesce(panel[p]._values,
                                   [columns |-> <<>>, rows |-> <<>>])])]
    /\ panel' = [panel EXCEPT ![p]._values = Undefined]

\* _refresh: the dataset, or the empty one, posted as an update.
Refresh(p) ==
    /\ webview' = [webview EXCEPT
            ![p].toHost = Tail(@),
            ![p].toWebview = Append(@,
                [command |-> "update",
                 data |-> Coalesce(panel[p]._values,
                                   [columns |-> <<>>, rows |-> <<>>])])]
    /\ UNCHANGED panel

\* HandleMessage without the case for connected.
HandleMessageNoConnected(p, message) ==
    IF message.command = "refresh" THEN Refresh(p)
    ELSE /\ webview' = [webview EXCEPT ![p].toHost = Tail(@)]
         /\ UNCHANGED panel

\* HandleMessage with a default case that refreshes.
HandleMessageDefaultRefreshes(p, message) ==
    IF message.command = "refresh" THEN Refresh(p)
    ELSE IF message.command = "connected" THEN Refresh(p)
    ELSE Refresh(p)

\* The listener of _setWebviewMessageListener, for `message`.
HandleMessage(p, message) ==
    IF message.command = "refresh" THEN Refresh(p)
    ELSE IF message.command = "connected" THEN Refresh(p)
    ELSE /\ webview' = [webview EXCEPT ![p].toHost = Tail(@)]
         /\ UNCHANGED panel

\* The oldest message of the webview reaches the host: the listener handles
\* it if it is still registered.
DeliverToHost(p) ==
    /\ webview[p].toHost # <<>>
    /\ IF "onDidReceiveMessage" \in panel[p].listeners
       THEN HandleMessage(p, Head(webview[p].toHost))
       ELSE /\ webview' = [webview EXCEPT ![p].toHost = Tail(@)]
            /\ UNCHANGED panel
    /\ UNCHANGED <<currentPanel, created, run, executing, kernelRows>>

\* LoadWebview with the effect run twice.
LoadWebviewPostsTwice(p) ==
    /\ Live(p)
    /\ panel[p].html
    /\ ~webview[p].loaded
    /\ webview' = [webview EXCEPT ![p].loaded = TRUE,
                                  ![p].toHost = @ \o <<[command |-> "connected"],
                                                       [command |-> "connected"]>>]
    /\ UNCHANGED <<currentPanel, created, panel, run, executing, kernelRows>>

\* The webview loads the HTML: the App mounts, its effect installs the
\* message listener and posts connected (lines 31-62).
LoadWebview(p) ==
    /\ Live(p)
    /\ panel[p].html
    /\ ~webview[p].loaded
    /\ webview' = [webview EXCEPT ![p].loaded = TRUE,
                                  ![p].toHost = Append(@, [command |-> "connected"])]
    /\ UNCHANGED <<currentPanel, created, panel, run, executing, kernelRows>>

\* handleHowdyClick.
ClickRefresh(p) ==
    /\ webview[p].loaded
    /\ webview[p].clicks < MaxClicks
    /\ webview' = [webview EXCEPT
            ![p].clicks = @ + 1,
            ![p].toHost = Append(@, [command |-> "refresh",
                                     text |-> "Hey there partner!"])]
    /\ UNCHANGED <<currentPanel, created, panel, run, executing, kernelRows>>

\* ColumnLoop with the row index pushed first.
RECURSIVE ColumnLoopRowFirst(_, _, _, _)
ColumnLoopRowFirst(i, j, n, cells) ==
    IF j < n THEN ColumnLoopRowFirst(i, j + 1, n, Append(cells, [cell |-> <<i, j>>]))
    ELSE cells

\* Lines 49-51: the inner loop, from column j, for row i of n columns.
RECURSIVE ColumnLoop(_, _, _, _)
ColumnLoop(i, j, n, cells) ==
    IF j < n THEN ColumnLoop(i, j + 1, n, Append(cells, [cell |-> <<j, i>>]))
    ELSE cells

\* Lines 48-52: the outer loop, from row i, for m rows.
RECURSIVE RowLoop(_, _, _, _)
RowLoop(i, m, n, cells) ==
    IF i < m THEN RowLoop(i + 1, m, n, ColumnLoop(i, 0, n, cells))
    ELSE cells

\* OnUpdate with the rows of the update added to the rows held.
OnUpdateAppendsRows(w, message) ==
    LET d == message.data
        titled == [j \in 1..Len(d.columns) |-> [title |-> d.columns[j],
                                                 width |-> ColumnWidth]]
        held == IF w.data = Undefined THEN <<>> ELSE w.data.array
    IN  IF "data" \in DOMAIN d
        THEN [w EXCEPT !.gridColumns = titled,
                       !.data = Arr(held \o d.data),
                       !.rows = Len(held \o d.data),
                       !.cells = RowLoop(0, Len(d.data), Len(d.columns), <<>>),
                       !.last = message,
                       !.previous = w.last]
        ELSE [w EXCEPT !.gridColumns = titled,
                       !.data = Undefined,
                       !.last = message,
                       !.previous = w.last]

\* OnUpdate with updateCells called only for a list that is not empty.
OnUpdateSkipsEmptyList(w, message) ==
    LET d == message.data
        titled == [j \in 1..Len(d.columns) |-> [title |-> d.columns[j],
                                                 width |-> ColumnWidth]]
    IN  IF "data" \in DOMAIN d
        THEN LET cells == RowLoop(0, Len(d.data), Len(d.columns), <<>>)
             IN  [w EXCEPT !.gridColumns = titled,
                           !.data = Arr(d.data),
                           !.rows = Len(d.data),
                           !.cells = IF cells = <<>> THEN @ ELSE cells,
                           !.last = message,
                           !.previous = w.last]
        ELSE [w EXCEPT !.gridColumns = titled,
                       !.data = Undefined,
                       !.last = message,
                       !.previous = w.last]

\* OnUpdate without setRows.
OnUpdateStaleRows(w, message) ==
    LET d == message.data
        titled == [j \in 1..Len(d.columns) |-> [title |-> d.columns[j],
                                                 width |-> ColumnWidth]]
    IN  IF "data" \in DOMAIN d
        THEN [w EXCEPT !.gridColumns = titled,
                       !.data = Arr(d.data),
                       !.cells = RowLoop(0, Len(d.data), Len(d.columns), <<>>),
                       !.last = message,
                       !.previous = w.last]
        ELSE [w EXCEPT !.gridColumns = titled,
                       !.data = Undefined,
                       !.last = message,
                       !.previous = w.last]

\* The App's listener for an update message (lines 36-55).  When the payload
\* has no data field, d.data.length throws after the first two setters.
OnUpdate(w, message) ==
    LET d == message.data
        titled == [j \in 1..Len(d.columns) |-> [title |-> d.columns[j],
                                                 width |-> ColumnWidth]]
    IN  IF "data" \in DOMAIN d
        THEN [w EXCEPT !.gridColumns = titled,
                       !.data = Arr(d.data),
                       !.rows = Len(d.data),
                       !.cells = RowLoop(0, Len(d.data), Len(d.columns), <<>>),
                       !.last = message,
                       !.previous = w.last]
        ELSE [w EXCEPT !.gridColumns = titled,
                       !.data = Undefined,
                       !.last = message,
                       !.previous = w.last]

\* A TypeError thrown by a property read of undefined.
TypeError == [error |-> "TypeError"]

\* getData([col, row]) of the App whose state is w (lines 66-76): data[row],
\* then person[col], then the text cell of `${val}`.  Reading a property of
\* undefined throws; a cell missing from its row reads as undefined, whose
\* text is "undefined".
GetData(w, col, row) ==
    IF w.data = Undefined THEN TypeError
    ELSE IF row >= Len(w.data.array) THEN TypeError
    ELSE LET person == w.data.array[row + 1]
             text == IF col < Len(person) THEN [string |-> person[col + 1]]
                     ELSE "undefined"
         IN  [kind |-> "Text", data |-> text, allowOverlay |-> FALSE,
              displayData |-> text]

\* The oldest message of the host reaches the webview.
DeliverToWebview(p) ==
    /\ webview[p].loaded
    /\ webview[p].toWebview # <<>>
    /\ webview' = [webview EXCEPT ![p] =
            OnUpdate([@ EXCEPT !.toWebview = Tail(@)], Head(webview[p].toWebview))]
    /\ UNCHANGED <<currentPanel, created, panel, run, executing, kernelRows>>

(* --------------------------- the specification ------------------------ *)

Next ==
    \/ \E variable \in VariableArgs, jupyterApi \in BOOLEAN, notebook \in BOOLEAN :
          Render(variable, jupyterApi, notebook)
    \/ \E p \in Panels : ClosePanel(p)
    \/ \E p \in Panels, kernelFound \in BOOLEAN : GetKernelResolved(p, kernelFound)
    \/ \E p \in Panels : IssueInfo(p)
    \/ \E p \in Panels, k \in 1..MaxChunks : RunCodeNext(p, k)
    \/ \E p \in Panels : RunCodeEnd(p)
    \/ \E p \in Panels : RunCodeStreamThrows(p)
    \/ \E p \in Panels : IssueRows(p)
    \/ \E p \in Panels : LoadWebview(p)
    \/ \E p \in Panels : ClickRefresh(p)
    \/ \E p \in Panels : DeliverToHost(p)
    \/ \E p \in Panels : DeliverToWebview(p)

Spec == Init /\ [][Next]_vars

\* The steps of panel p that the event loop, the file system, the kernel and
\* the webview take when they can: a pending readFile resolves, the kernel
\* goes on with a running execution, the webview loads the HTML it was given,
\* and a posted message is delivered.
Fairness(p) ==
    /\ WF_vars(IssueInfo(p))
    /\ WF_vars(IssueRows(p))
    /\ WF_vars((\E k \in 1..MaxChunks : RunCodeNext(p, k))
               \/ RunCodeEnd(p) \/ RunCodeStreamThrows(p))
    /\ WF_vars(LoadWebview(p))
    /\ WF_vars(DeliverToHost(p))
    /\ WF_vars(DeliverToWebview(p))

SpecLive == Spec /\ \A p \in Panels : Fairness(p)

(* ------------------- _runCode, on arbitrary streams ------------------- *)

\* _runCode is called on its own, the kernel answering with any stream.
CallDirect(p) ==
    /\ panel[p].pc = "absent"
    /\ run[p].state # "running"
    /\ run[p].calls < MaxCalls
    /\ \E v \in Variables : StartRunCode(p, GenerateCodeForDataFrameColumns(v))
    /\ UNCHANGED <<currentPanel, created, panel, kernelRows, webview>>

NextRunCode ==
    \/ CallDirect(1)
    \/ \E k \in 1..MaxChunks : RunCodeNext(1, k)
    \/ RunCodeEnd(1)
    \/ RunCodeStreamThrows(1)

SpecRunCode == Init /\ [][NextRunCode]_vars

(* -------------------- the App, on arbitrary updates ------------------- *)

ColumnNames == <<"a", "b", "c", "d">>

\* The payloads an update can carry: the datasets of at most MaxCols columns
\* and MaxRows rows, and the payload _refresh sends when no dataset is loaded.
Payloads ==
    {Dataset(SubSeq(ColumnNames, 1, n), m) : n \in 0..MaxCols, m \in 0..MaxRows}
    \cup {[columns |-> <<>>, rows |-> <<>>]}

UpdateMessages == {[command |-> "update", data |-> d] : d \in Payloads}

\* The App of a panel of the fallback path is mounted, and at most MaxUpdates
\* update messages are on their way to it.
InitApp ==
    /\ currentPanel = 1
    /\ created = 1
    /\ panel = [p \in Panels |->
                  IF p = 1 THEN Construct(Undefined, FALSE, FALSE) ELSE NoPanel]
    /\ run = [p \in Panels |-> IdleFrame]
    /\ executing = {}
    /\ kernelRows \in KernelRowCounts
    /\ \E updates \in SeqsUpTo(UpdateMessages, MaxUpdates) :
          webview = [p \in Panels |->
                       IF p = 1
                       THEN [NoWebview EXCEPT !.loaded = TRUE,
                                              !.toHost = <<[command |-> "connected"]>>,
                                              !.toWebview = updates]
                       ELSE NoWebview]

NextApp ==
    \/ DeliverToWebview(1)
    \/ ClickRefresh(1)

SpecApp == InitApp /\ [][NextApp]_vars

(* ------------- the message listener, on arbitrary messages ------------ *)

\* Commands the listener has no case for: another name, and the command of
\* the host's own message.
OtherCommands == {"hello", "update"}

\* A script of the loaded webview posts a message with another command
\* (the listener takes `message: any`, line 252).
PostOther(p) ==
    /\ webview[p].loaded
    /\ webview[p].others < MaxOthers
    /\ \E command \in OtherCommands :
          webview' = [webview EXCEPT
              ![p].others = @ + 1,
              ![p].toHost = Append(@, [command |-> command])]
    /\ UNCHANGED <<currentPanel, created, panel, run, executing, kernelRows>>

\* One panel, from render to its end without being closed, whose webview
\* also posts messages of other commands.
NextBridge ==
    \/ \E variable \in VariableArgs, jupyterApi \in BOOLEAN, notebook \in BOOLEAN :
          Render(variable, jupyterApi, notebook)
    \/ \E kernelFound \in BOOLEAN : GetKernelResolved(1, kernelFound)
    \/ IssueInfo(1)
    \/ \E k \in 1..MaxChunks : RunCodeNext(1, k)
    \/ RunCodeEnd(1)
    \/ RunCodeStreamThrows(1)
    \/ IssueRows(1)
    \/ LoadWebview(1)
    \/ ClickRefresh(1)
    \/ PostOther(1)
    \/ DeliverToHost(1)
    \/ DeliverToWebview(1)

SpecBridge == Init /\ [][NextBridge]_vars

(* ---------------------- dispose(), statement by statement ------------- *)

\* What a call of dispose() works on: the fields of the panel and
\* currentPanel; returned is FALSE when the call was followed for MaxSteps
\* steps without returning.
DisposeState(pr, current) == [pr |-> pr, currentPanel |-> current, returned |-> TRUE]

\* Lines 183-188: while the list is not empty, its last element is popped
\* and disposed, which removes the listener it stands for.
RECURSIVE DisposeLoop(_, _)
DisposeLoop(s, fuel) ==
    IF s.pr._disposables = <<>> THEN s
    ELSE IF fuel = 0 THEN [s EXCEPT !.returned = FALSE]
    ELSE LET n == Len(s.pr._disposables)
             disposable == s.pr._disposables[n]
         IN  DisposeLoop(
                 [s EXCEPT !.pr._disposables = SubSeq(@, 1, n - 1),
                           !.pr.listeners = @ \ {disposable},
                           !.pr.released = Append(@, disposable)],
                 fuel - 1)

\* dispose() (lines 176-189).  Line 177 clears currentPanel.  Line 180
\* disposes the WebviewPanel: nothing happens when it is disposed already;
\* otherwise it is marked disposed and onDidDispose fires, whose listener,
\* if registered, calls dispose() again before line 180 returns.  Then the
\* loop runs.
RECURSIVE DisposeCall(_, _)
DisposeCall(s, fuel) ==
    IF fuel = 0 THEN [s EXCEPT !.returned = FALSE]
    ELSE LET cleared == [s EXCEPT !.currentPanel = 0, !.pr.disposeCalls = @ + 1]
             closed == [cleared EXCEPT !.pr.disposed = TRUE, !.pr.view = "closed"]
             afterPanelDispose ==
                 IF cleared.pr.disposed THEN cleared
                 ELSE IF "onDidDispose" \in closed.pr.listeners
                 THEN DisposeCall(closed, fuel - 1)
                 ELSE closed
         IN  IF afterPanelDispose.returned
             THEN DisposeLoop(afterPanelDispose, fuel - 1)
             ELSE afterPanelDispose

\* dispose() is called on panel p by a holder of the object, whether the
\* panel is live or closed.  Disposing a live WebviewPanel destroys its
\* webview as closing it does.
DisposeDirect(p) ==
    /\ panel[p].pc # "absent"
    /\ ~panel[p].disposing
    /\ panel[p].disposeCalls <= MaxCalls
    /\ LET s == DisposeCall(DisposeState(panel[p], currentPanel), MaxSteps)
       IN  /\ panel' = [panel EXCEPT ![p] = [s.pr EXCEPT !.disposing = ~s.returned]]
           /\ currentPanel' = s.currentPanel
    /\ webview' = [webview EXCEPT ![p] =
                     IF panel[p].disposed THEN @
                     ELSE [NoWebview EXCEPT !.toHost = webview[p].toHost]]
    /\ UNCHANGED <<created, run, executing, kernelRows>>

\* Panels are rendered and closed, and dispose() is also called directly.
NextDispose ==
    \/ \E variable \in VariableArgs, jupyterApi \in BOOLEAN, notebook \in BOOLEAN :
          Render(variable, jupyterApi, notebook)
    \/ \E p \in Panels : ClosePanel(p)
    \/ \E p \in Panels : DisposeDirect(p)

SpecDispose == Init /\ [][NextDispose]_vars

(* --------------- the code templates, on arbitrary arguments ----------- *)

\* Variable names the generators are called with: a name, and an expression
\* that quoting or escaping would alter.
VariableNames == {"df", "frames[\"a\"]"}

\* The indices the rows generator is called with.
StartIndices == 0..1
EndIndices == -1..(MaxRows - 1)

\* One of the two generators is called on its own, and the payload it
\* returns is kept with those generated before.
GenerateDirect(p) ==
    /\ panel[p].pc = "absent"
    /\ Len(run[p].requests) < MaxCalls
    /\ \E variableName \in VariableNames :
          \/ run' = [run EXCEPT ![p].requests =
                        Append(@, GenerateCodeForDataFrameColumns(variableName))]
          \/ \E startIndex \in StartIndices, endIndex \in EndIndices :
                run' = [run EXCEPT ![p].requests =
                           Append(@, GenerateCodeForDataFrameRows(variableName,
                                                                  startIndex, endIndex))]
    /\ UNCHANGED <<currentPanel, created, panel, executing, kernelRows, webview>>

NextCode == GenerateDirect(1)

SpecCode == Init /\ [][NextCode]_vars

(* ------------------------------ the claims ---------------------------- *)

\* The message listener of p handles the oldest message of the webview in
\* this step.
Handles(p) ==
    /\ webview[p].toHost # <<>>
    /\ "onDidReceiveMessage" \in panel[p].listeners
    /\ webview'[p].toHost = Tail(webview[p].toHost)

\* A dataset with a columns array, all of whose arrays are empty.
IsEmptyDataset(d) == "columns" \in DOMAIN d /\ \A k \in DOMAIN d : d[k] = <<>>

C1_AtMostOneLivePanel == Cardinality({p \in Panels : Live(p)}) <= 1

\* C1: before and after every step at most one panel is live, and a render
\* call made while a panel is live creates no panel and changes nothing but
\* the view of the live panel, which it reveals.
TheoremC1 ==
    [][/\ C1_AtMostOneLivePanel
       /\ C1_AtMostOneLivePanel'
       /\ (/\ \E p \in Panels : Live(p)
           /\ \E variable \in VariableArgs, jupyterApi \in BOOLEAN, notebook \in BOOLEAN :
                 Render(variable, jupyterApi, notebook))
          => /\ created' = created
             /\ \E p \in Panels :
                   Live(p) /\ panel' = [panel EXCEPT ![p].view = "revealed"]]_vars

\* A second panel, created after the first was closed, has been revealed by a
\* render call.
WitnessC1 ==
    \E p \in Panels : p >= 2 /\ Live(p) /\ panel[p].view = "revealed"

\* C2: once dispose has run on a panel, no step has its message listener
\* handle a message and no step adds an update message of it, whenever the
\* disposal happened.
TheoremC2 ==
    [][\A p \in Panels :
          panel[p].disposeCalls > 0
          => /\ ~Handles(p)
             /\ webview'[p].toWebview = webview[p].toWebview]_vars

\* One panel was disposed with a message of its webview still on its way,
\* and another while a kernel execution of it was in flight, which has since
\* run to the end of initialize.
WitnessC2 ==
    \E p, q \in Panels :
        /\ panel[p].disposeCalls > 0 /\ webview[p].toHost # <<>>
        /\ panel[q].disposeCalls > 0 /\ panel[q].pc = "done"
        /\ "onDidReceiveMessage" \in panel[q].listeners

\* C3: every update message on its way to a webview has the command update
\* and a payload with a columns and a data array.
CounterC3 ==
    \A p \in Panels :
        \A i \in 1..Len(webview[p].toWebview) :
            LET message == webview[p].toWebview[i]
            IN  /\ message.command = "update"
                /\ {"columns", "data"} \subseteq DOMAIN message.data

\* C4: every step in which the listener handles a connected or a refresh
\* message adds exactly one update message, whose payload is the loaded
\* dataset if there is one and an empty dataset otherwise, whichever of the
\* two the message is.
TheoremC4 ==
    [][\A p \in Panels :
          (Handles(p) /\ Head(webview[p].toHost).command \in {"connected", "refresh"})
          => LET old == webview[p].toWebview
                 new == webview'[p].toWebview
             IN  /\ Len(new) = Len(old) + 1
                 /\ SubSeq(new, 1, Len(old)) = old
                 /\ new[Len(new)].command = "update"
                 /\ IF panel[p]._values # Undefined
                    THEN new[Len(new)].data = panel[p]._values
                    ELSE IsEmptyDataset(new[Len(new)].data)]_vars

\* The connected and the refresh message of a panel with a loaded dataset
\* have both been answered, with the same update.
WitnessC4 ==
    \E p \in Panels :
        /\ panel[p]._values # Undefined
        /\ webview[p].clicks = 1
        /\ webview[p].toHost = <<>>
        /\ Len(webview[p].toWebview) = 2
        /\ webview[p].toWebview[1] = webview[p].toWebview[2]

\* C5: a panel that took the fallback of the constructor, or whose kernel
\* lookup resolved to no kernel, has its webview initialised.
CounterC5 ==
    \A p \in Panels :
        panel[p].pc \in {"fallback", "noKernel"}
        => panel[p].html /\ (Live(p) => "onDidReceiveMessage" \in panel[p].listeners)

\* C6: the requests of a panel are the schema request and then the rows
\* request, at most one of them is in flight, and the rows request has been
\* issued only if the schema request is over and its parsed result stored.
TheoremC6 ==
    \A p \in Panels :
        LET modes == [i \in 1..Len(run[p].requests) |-> run[p].requests[i][2].mode]
        IN  /\ Cardinality({e \in executing : e[1] = p}) <= 1
            /\ modes \in {<<>>, <<"info">>, <<"info", "rows">>}
            /\ Len(modes) = 2
               => /\ <<p, "info">> \notin executing
                  /\ panel[p]._columns \in
                        {DataFrameColumns(v, m) : v \in Variables, m \in 0..MaxRows}

\* The rows request of a panel is in flight.
WitnessC6 == \E p \in Panels : <<p, "rows">> \in executing

\* C7: a panel on the kernel path has its HTML set, its message listener
\* registered, its webview loaded or an update posted only when both
\* executions are over and both results stored.
TheoremC7 ==
    \A p \in Panels :
        (/\ panel[p].pc \notin {"absent", "fallback"}
         /\ \/ panel[p].html
            \/ "onDidReceiveMessage" \in panel[p].listeners
            \/ webview[p].loaded
            \/ webview[p].toWebview # <<>>)
        => /\ panel[p].pc = "done"
           /\ panel[p]._columns # Undefined
           /\ panel[p]._values # Undefined
           /\ run[p].calls = 2
           /\ \A e \in executing : e[1] # p

\* A panel on the kernel path has posted an update.
WitnessC7 ==
    \E p \in Panels : panel[p].pc = "done" /\ webview[p].toWebview # <<>>

\* The texts of the items that are no error items, in their order.
RECURSIVE NonErrorTexts(_)
NonErrorTexts(items) ==
    IF items = <<>> THEN <<>>
    ELSE (IF Head(items).mime = ErrorMimeType THEN <<>> ELSE Decode(Head(items).data))
         \o NonErrorTexts(Tail(items))

\* C8: when _runCode has returned, its result is the concatenation, in
\* arrival order, of the decoded items that are no error items, and so the
\* empty text when every item was an error item.
TheoremC8 ==
    \A p \in Panels :
        run[p].state = "returned"
        => /\ run[p].result = NonErrorTexts(run[p].arrived)
           /\ (\A i \in 1..Len(run[p].arrived) : run[p].arrived[i].mime = ErrorMimeType)
              => run[p].result = <<>>

\* _runCode has returned a text from a stream of an error item and an item
\* that is none.
WitnessC8 ==
    \E p \in Panels :
        /\ run[p].state = "returned"
        /\ run[p].result # <<>>
        /\ \E i, j \in 1..Len(run[p].arrived) :
              /\ run[p].arrived[i].mime = ErrorMimeType
              /\ run[p].arrived[j].mime # ErrorMimeType

\* C9: every call of _runCode has created one token source, and every token
\* source is disposed once, but that of the call that is still running.
TheoremC9 ==
    \A p \in Panels :
        /\ run[p].tokensCreated = run[p].calls
        /\ run[p].tokensDisposed =
              (IF run[p].state = "running" THEN run[p].calls - 1 ELSE run[p].calls)

\* A second call of _runCode has thrown while decoding an error item.
WitnessC9 ==
    \E p \in Panels :
        /\ run[p].calls >= 2
        /\ run[p].state = "threw"
        /\ run[p].arrived # <<>>
        /\ run[p].arrived[Len(run[p].arrived)].mime = ErrorMimeType

\* C10: after the App has processed an update whose payload has a columns
\* and a data array, the grid has one column per column name, titled with it
\* and 100 wide, in the same order, and as many rows as the data array.
TheoremC10 ==
    \A p \in Panels :
        (webview[p].last # Undefined /\ "data" \in DOMAIN webview[p].last.data)
        => LET d == webview[p].last.data
           IN  /\ Len(webview[p].gridColumns) = Len(d.columns)
               /\ \A j \in 1..Len(d.columns) :
                     webview[p].gridColumns[j] = [title |-> d.columns[j], width |-> 100]
               /\ webview[p].rows = Len(d.data)

\* The App has processed an update of two columns and one row, and no
\* update is left on its way.
WitnessC10 ==
    \E p \in Panels :
        /\ webview[p].last # Undefined
        /\ "data" \in DOMAIN webview[p].last.data
        /\ Len(webview[p].last.data.columns) = 2
        /\ Len(webview[p].last.data.data) = 1
        /\ webview[p].toWebview = <<>>
        /\ webview[p].rows = 1

\* The update message last processed carries a dataset of a columns and a
\* data array.
WellFormed(message) ==
    message # Undefined /\ {"columns", "data"} \subseteq DOMAIN message.data

\* The shape of the dataset of a well-formed update: columns and rows.
Shape(message) == <<Len(message.data.columns), Len(message.data.data)>>

\* C11: whatever updates came before, after a well-formed update the columns
\* of the grid, the backing data and the row count are those of that update
\* alone: every column and every row held is one of the last update, in its
\* place.
TheoremC11 ==
    \A p \in Panels :
        WellFormed(webview[p].last)
        => LET d == webview[p].last.data
           IN  /\ [j \in 1..Len(webview[p].gridColumns) |-> webview[p].gridColumns[j].title]
                  = d.columns
               /\ webview[p].data = Arr(d.data)
               /\ webview[p].rows = Len(webview[p].data.array)

\* An update of one column and one row has been processed after an update of
\* two columns and two rows.
WitnessC11 ==
    \E p \in Panels :
        /\ WellFormed(webview[p].previous) /\ Shape(webview[p].previous) = <<2, 2>>
        /\ WellFormed(webview[p].last) /\ Shape(webview[p].last) = <<1, 1>>

\* C12: after an update whose columns and data arrays are both empty the
\* grid has no column and no row and the list passed to updateCells is empty,
\* whatever was displayed before.
TheoremC12 ==
    \A p \in Panels :
        (WellFormed(webview[p].last) /\ Shape(webview[p].last) = <<0, 0>>)
        => /\ webview[p].gridColumns = <<>>
           /\ webview[p].rows = 0
           /\ webview[p].cells = <<>>

\* The empty dataset has been processed after an update of two columns and
\* two rows.
WitnessC12 ==
    \E p \in Panels :
        /\ WellFormed(webview[p].previous) /\ Shape(webview[p].previous) = <<2, 2>>
        /\ WellFormed(webview[p].last) /\ Shape(webview[p].last) = <<0, 0>>

\* The fetch sequence of panel p is in flight: initialize has been entered
\* and has neither run to its end nor returned or been rejected.
FetchInFlight(p) ==
    panel[p].pc \in {"getKernel", "readInfo", "runInfo", "readRows", "runRows"}

\* C13: at most one panel has its fetch sequence in flight, and at most one
\* kernel execution is in flight.
CounterC13 ==
    /\ Cardinality({p \in Panels : FetchInFlight(p)}) <= 1
    /\ Cardinality(executing) <= 1

\* The modes of the requests of panel p, oldest first.
Modes(p) == [i \in 1..Len(run[p].requests) |-> run[p].requests[i][2].mode]

\* How many requests of panel p have the mode `mode`.
Issued(p, mode) == Cardinality({i \in 1..Len(Modes(p)) : Modes(p)[i] = mode})

\* Nothing is retried and nothing is shown after a failure: a panel has at
\* most two requests, of different modes, none for rows when the schema was
\* not stored, and with the dataset unset its webview is untouched.
C14_NoRetry(p) ==
    LET requests == run[p].requests
    IN  /\ Len(requests) <= 2
        /\ Len(requests) = 2 => requests[1][2].mode # requests[2][2].mode
        /\ (panel[p].pc = "rejected" /\ panel[p]._columns = Undefined)
           => \A i \in 1..Len(requests) : requests[i][2].mode # "rows"
        /\ (panel[p].pc = "rejected" /\ panel[p]._values = Undefined)
           => /\ ~panel[p].html
              /\ "onDidReceiveMessage" \notin panel[p].listeners
              /\ ~webview[p].loaded

\* The execution of panel p ends in this step, having produced error items
\* only.
EndsWithErrorsOnly(p) ==
    /\ panel[p].pc \in {"runInfo", "runRows"}
    /\ run[p].state = "running"
    /\ run'[p].state = "idle"
    /\ run[p].arrived # <<>>
    /\ \A i \in 1..Len(run[p].arrived) : run[p].arrived[i].mime = ErrorMimeType

\* C14: an execution that ends with error output only has accumulated no
\* text, and its panel is rejected with nothing stored by that step; no
\* request is issued twice, no rows request follows a failed schema request,
\* and a panel rejected without its dataset never has its webview
\* initialised.
TheoremC14 ==
    [][\A p \in Panels :
          /\ C14_NoRetry(p)
          /\ C14_NoRetry(p)'
          /\ EndsWithErrorsOnly(p)
             => /\ run[p].streamingOutput = <<>>
                /\ panel'[p].pc = "rejected"
                /\ panel'[p]._values = Undefined
                /\ panel'[p]._columns = panel[p]._columns
                /\ run'[p].requests = run[p].requests]_vars

\* The rows execution of one panel has produced an error item only, and
\* another panel has been rejected after its schema request, its only one.
WitnessC14 ==
    \E p, q \in Panels :
        /\ panel[p].pc = "runRows"
        /\ run[p].arrived = <<ErrorItem(ErrorDocument)>>
        /\ panel[q].pc = "rejected"
        /\ panel[q]._columns = Undefined
        /\ Len(run[q].requests) = 1

\* The call of the schema payload for variableName.
InfoCall(variableName) ==
    [func |-> "_VSCODE_getDataFrame", mode |-> "info", flag |-> "False",
     variable |-> variableName]

\* The call of the rows payload for variableName and the two indices, given
\* as their decimal texts.
RowsCall(variableName, startText, endText) ==
    [func |-> "_VSCODE_getDataFrame", mode |-> "rows", flag |-> "False",
     variable |-> variableName, startIndex |-> startText, endIndex |-> endText]

\* The decimal texts of the integers -1..MaxRows.
DecimalText == [n \in -1..MaxRows |-> IF n = -1 THEN <<"-", "1">> ELSE <<Digits[n + 1]>>]

\* C15: each generator returns the template text, one call and the cleanup
\* block, in this order; the call of the schema payload has mode info, False
\* and the variable name as given, and the call of the rows payload has mode
\* rows, False, the variable name as given, the start and the end index.
\* Every payload generated is one of these.
TheoremC15 ==
    /\ \A variableName \in VariableNames :
          /\ GenerateCodeForDataFrameColumns(variableName)
                = <<initializeCode, InfoCall(variableName), cleanupCode>>
          /\ \A startIndex \in StartIndices, endIndex \in EndIndices :
                GenerateCodeForDataFrameRows(variableName, startIndex, endIndex)
                   = <<initializeCode,
                       RowsCall(variableName, DecimalText[startIndex], DecimalText[endIndex]),
                       cleanupCode>>
    /\ \A p \in Panels :
          \A i \in 1..Len(run[p].requests) :
             LET payload == run[p].requests[i]
             IN  /\ Len(payload) = 3
                 /\ payload[1] = initializeCode
                 /\ payload[3] = cleanupCode
                 /\ \E variableName \in VariableNames :
                       \/ payload[2] = InfoCall(variableName)
                       \/ \E startIndex \in StartIndices, endIndex \in EndIndices :
                             payload[2] = RowsCall(variableName, DecimalText[startIndex],
                                                   DecimalText[endIndex])

\* A schema payload and a rows payload with end index -1 have been generated
\* for the name that is an expression.
WitnessC15 ==
    \E p \in Panels :
        /\ Len(run[p].requests) = 2
        /\ run[p].requests[1][2] = InfoCall("frames[\"a\"]")
        /\ run[p].requests[2][2] = RowsCall("frames[\"a\"]", <<"1">>, <<"-", "1">>)

\* C16: the step in which a webview loads posts one connected message and
\* leaves the update listener installed, a click posts one refresh message,
\* no other step posts a message of the webview, and every message of a
\* webview is a connected or a refresh message.
TheoremC16 ==
    [][\A p \in Panels :
          LET old == webview[p].toHost
              new == webview'[p].toHost
              loads == ~webview[p].loaded /\ webview'[p].loaded
              clicks == webview'[p].clicks = webview[p].clicks + 1
          IN  /\ loads => new = Append(old, [command |-> "connected"])
              /\ clicks => /\ Len(new) = Len(old) + 1
                           /\ SubSeq(new, 1, Len(old)) = old
                           /\ new[Len(new)].command = "refresh"
              /\ Len(new) > Len(old) => (loads \/ clicks)
              /\ \A i \in 1..Len(new) : new[i].command \in {"connected", "refresh"}]_vars

\* A loaded webview has posted its connected message and, after a click, a
\* refresh message.
WitnessC16 ==
    \E p \in Panels :
        /\ webview[p].loaded
        /\ webview[p].clicks = 1
        /\ Len(webview[p].toHost) = 2
        /\ webview[p].toHost[1].command = "connected"
        /\ webview[p].toHost[2].command = "refresh"

\* C17: after an update of N columns and M rows, the list passed to
\* updateCells has N * M entries, holds the cell <<j, i>> exactly once for
\* every column j below N and row i below M, and holds no other cell.
TheoremC17 ==
    \A p \in Panels :
        WellFormed(webview[p].last)
        => LET N == Shape(webview[p].last)[1]
               M == Shape(webview[p].last)[2]
               cells == webview[p].cells
           IN  /\ Len(cells) = N * M
               /\ \A j \in 0..(N - 1), i \in 0..(M - 1) :
                     Cardinality({k \in 1..Len(cells) : cells[k] = [cell |-> <<j, i>>]}) = 1
               /\ \A k \in 1..Len(cells) :
                     /\ cells[k].cell[1] \in 0..(N - 1)
                     /\ cells[k].cell[2] \in 0..(M - 1)

\* An update of two columns and one row has been processed after an update
\* of one column and two rows, and two cells were passed to updateCells.
WitnessC17 ==
    \E p \in Panels :
        /\ WellFormed(webview[p].previous) /\ Shape(webview[p].previous) = <<1, 2>>
        /\ WellFormed(webview[p].last) /\ Shape(webview[p].last) = <<2, 1>>
        /\ webview[p].cells = <<[cell |-> <<0, 0>>], [cell |-> <<1, 0>>]>>

\* C18: in a loaded webview the backing data is an array whose length is the
\* row count given to the grid, and getData returns a text cell for every
\* cell of a column of the grid and a row below the row count.
CounterC18 ==
    \A p \in Panels :
        webview[p].loaded
        => /\ webview[p].data # Undefined
           /\ webview[p].rows = Len(webview[p].data.array)
           /\ \A row \in 0..(webview[p].rows - 1),
                 col \in 0..(Len(webview[p].gridColumns) - 1) :
                 /\ GetData(webview[p], col, row) # TypeError
                 /\ GetData(webview[p], col, row).kind = "Text"

\* The grid of panel p shows the dataset of its variable: the webview is
\* initialised and the last update it processed carried the dataset the
\* kernel holds, whose columns and rows the grid has.
Shown(p) ==
    /\ panel[p].html
    /\ WellFormed(webview[p].last)
    /\ webview[p].last.data = DataFrameValues(panel[p].variable.name, kernelRows)
    /\ [j \in 1..Len(webview[p].gridColumns) |-> webview[p].gridColumns[j].title]
          = Cols(panel[p].variable.name)
    /\ webview[p].rows = kernelRows

\* C19: a panel created with a variable whose kernel lookup found a kernel
\* eventually shows the dataset in its grid, unless the panel is closed or an
\* execution fails or returns text that does not parse.
TheoremC19 ==
    \A p \in Panels :
        (panel[p].pc = "readInfo")
        ~> (Shown(p) \/ panel[p].disposed \/ panel[p].pc = "rejected")

\* The grid of a live panel shows the two rows the kernel holds.
WitnessC19 ==
    \E p \in Panels :
        Live(p) /\ panel[p].pc = "done" /\ Shown(p) /\ webview[p].rows = 2

\* C20: a panel whose schema is stored and whose template has been read can
\* issue its rows request, whatever the row count; the rows request of a
\* panel is its only one, and asks for start index 0 and end index
\* rowCount - 1 of the schema the panel has stored, which is -1 for no rows.
TheoremC20 ==
    \A p \in Panels :
        /\ panel[p].pc = "readRows" => ENABLED IssueRows(p)
        /\ Issued(p, "rows") <= 1
        /\ \A i \in 1..Len(run[p].requests) :
              LET call == run[p].requests[i][2]
                  rowCount == panel[p]._columns.rowCount
              IN  call.mode = "rows"
                  => /\ rowCount = kernelRows
                     /\ call.startIndex = <<"0">>
                     /\ call.endIndex = DecimalText[rowCount - 1]
                     /\ rowCount = 0 => call.endIndex = <<"-", "1">>

\* The rows request of a panel whose schema reports no rows is in flight,
\* with end index -1.
WitnessC20 ==
    \E p \in Panels :
        /\ panel[p]._columns # Undefined
        /\ panel[p].pc = "runRows"
        /\ panel[p]._columns.rowCount = 0
        /\ <<p, "rows">> \in executing
        /\ run[p].requests[2][2].endIndex = <<"-", "1">>

\* The fetch sequence of a disposed panel goes on: its next request can be
\* issued, and its running execution is still with the kernel, the token
\* source of the call neither cancelled nor disposed.
C21_GoesOn(p) ==
    panel[p].disposed
    => /\ panel[p].pc = "readInfo" => ENABLED IssueInfo(p)
       /\ panel[p].pc = "readRows" => ENABLED IssueRows(p)
       /\ panel[p].pc \in {"runInfo", "runRows"}
          => /\ run[p].state = "running"
             /\ \E e \in executing : e[1] = p
             /\ run[p].tokensDisposed = run[p].tokensCreated - 1

\* C21: the step that disposes a panel leaves its _runCode call, the
\* executions in flight, the position of initialize and what it has stored
\* unchanged; after every step that changes a disposed panel, its fetch
\* sequence goes on; and only the
\* end of its execution takes a panel out of waiting for it, so that while
\* the execution has not ended the webview stays uninitialised.
TheoremC21 ==
    [][\A p \in Panels :
          /\ (~panel[p].disposed /\ panel'[p].disposed)
             => /\ run' = run
                /\ executing' = executing
                /\ panel'[p].pc = panel[p].pc
                /\ panel'[p]._columns = panel[p]._columns
                /\ panel'[p]._values = panel[p]._values
          /\ panel'[p] # panel[p] => C21_GoesOn(p)'
          /\ panel[p].pc \in {"runInfo", "runRows"}
             => /\ ~panel[p].html
                /\ panel'[p].pc # panel[p].pc
                   => run[p].state = "running" /\ run'[p].state = "idle"]_vars

\* A panel disposed during its fetch sequence has stored its dataset and
\* registered its message listener since.
WitnessC21 ==
    \E p \in Panels :
        /\ panel[p].disposed
        /\ panel[p].pc = "done"
        /\ panel[p]._values # Undefined
        /\ panel[p].html
        /\ "onDidReceiveMessage" \in panel[p].listeners

\* The payload of the updates of panel p, by the variable it was created
\* with: the rows the kernel holds of it, or the empty dataset.
C22_CreatedPayload(p) ==
    IF panel[p].variable = Undefined
    THEN [columns |-> <<>>, rows |-> <<>>]
    ELSE DataFrameValues(panel[p].variable.name, kernelRows)

\* C22: a render call made while a live panel exists, also one naming another
\* variable than the panel's, changes nothing but the view of that panel: no
\* kernel lookup begins and no execution is requested, and the schema and
\* the dataset stay; the variable of a panel never changes, and every update
\* a panel posts carries the dataset of the variable it was created with.
TheoremC22 ==
    [][/\ (/\ currentPanel # 0
           /\ \E variable \in VariableArgs, jupyterApi \in BOOLEAN,
                 notebook \in BOOLEAN :
                 /\ variable # panel[currentPanel].variable
                 /\ Render(variable, jupyterApi, notebook))
          => /\ run' = run
             /\ executing' = executing
             /\ webview' = webview
             /\ currentPanel' = currentPanel
             /\ created' = created
             /\ panel' = [panel EXCEPT ![currentPanel].view = panel'[currentPanel].view]
       /\ \A p \in Panels :
             /\ panel[p].pc # "absent" => panel'[p].variable = panel[p].variable
             /\ Len(webview'[p].toWebview) > Len(webview[p].toWebview)
                => webview'[p].toWebview[Len(webview'[p].toWebview)].data
                      = C22_CreatedPayload(p)]_vars

\* A live panel created with a variable has been revealed by a later render
\* call, holds its dataset, and an update with that dataset is on its way.
WitnessC22 ==
    \E p \in Panels :
        /\ Live(p)
        /\ panel[p].view = "revealed"
        /\ panel[p].variable # Undefined
        /\ panel[p]._values = DataFrameValues(panel[p].variable.name, kernelRows)
        /\ webview[p].toWebview # <<>>
        /\ webview[p].toWebview[1].data = panel[p]._values

\* The update messages of panel p that the state still holds: those on
\* their way, and the last two its App has processed.
C23_Updates(p) ==
    {webview[p].toWebview[i] : i \in 1..Len(webview[p].toWebview)}
    \cup ({webview[p].last, webview[p].previous} \ {Undefined})

\* C23: a dataset that is stored is never written again; the step in which
\* the host handles a message of the webview changes no panel, requests no
\* execution and posts the stored dataset, or the empty one when none is
\* stored; the dataset of a panel whose listener is installed does not
\* change, so that all updates of a panel carry one payload: a loaded
\* dataset for a panel created with a variable, the empty one otherwise.
TheoremC23 ==
    [][\A p \in Panels :
          /\ panel[p]._values # Undefined => panel'[p]._values = panel[p]._values
          /\ "onDidReceiveMessage" \in panel[p].listeners
             => panel'[p]._values = panel[p]._values
          /\ Handles(p)
             => /\ panel' = panel
                /\ run' = run
                /\ executing' = executing
                /\ webview'[p].toWebview
                      = Append(webview[p].toWebview,
                               [command |-> "update",
                                data |-> Coalesce(panel[p]._values,
                                                  [columns |-> <<>>, rows |-> <<>>])])
          /\ \A m \in C23_Updates(p)' :
                /\ \A n \in C23_Updates(p)' : n.data = m.data
                /\ panel'[p].variable # Undefined
                   => m.data = panel'[p]._values /\ ~IsEmptyDataset(m.data)
                /\ panel'[p].variable = Undefined
                   => m.data = [columns |-> <<>>, rows |-> <<>>]]_vars

\* The App of a panel created with a variable has processed two updates,
\* both carrying the dataset the panel has stored.
WitnessC23 ==
    \E p \in Panels :
        /\ panel[p]._values # Undefined
        /\ webview[p].previous # Undefined
        /\ webview[p].last # Undefined
        /\ webview[p].previous.data = panel[p]._values
        /\ webview[p].last.data = panel[p]._values

\* currentPanel is set exactly when a live panel exists, and is that panel.
C24_RefersToLivePanel ==
    /\ currentPanel # 0 <=> \E p \in Panels : Live(p)
    /\ currentPanel # 0 => Live(currentPanel)
    /\ \A p \in Panels : Live(p) => p = currentPanel

\* The kernel lookup of the panel currentPanel refers to can resolve.
C24_LookupBegun ==
    currentPanel # 0 /\ ENABLED GetKernelResolved(currentPanel, TRUE)

\* C24: currentPanel is set exactly when a live panel exists and refers to
\* it; the step that closes a panel clears currentPanel; and a render call
\* made when no panel is live constructs a new panel, which currentPanel
\* then refers to, with no schema, no dataset and no request of its own yet,
\* the other panels unchanged, and, when the call has a variable, a
\* notebook and the Jupyter API, with its kernel lookup begun for that variable.
TheoremC24 ==
    [][/\ C24_RefersToLivePanel
       /\ C24_RefersToLivePanel'
       /\ \A p \in Panels :
             (~panel[p].disposed /\ panel'[p].disposed) => currentPanel' = 0
       /\ (/\ currentPanel = 0
           /\ \E variable \in VariableArgs, jupyterApi \in BOOLEAN,
                 notebook \in BOOLEAN : Render(variable, jupyterApi, notebook))
          => LET new == created + 1
             IN  /\ created' = new
                 /\ currentPanel' = new
                 /\ panel[new].pc = "absent"
                 /\ panel'[new].pc \in {"getKernel", "fallback"}
                 /\ panel'[new]._columns = Undefined
                 /\ panel'[new]._values = Undefined
                 /\ panel'[new].listeners \ {"onDidReceiveMessage"} = {"onDidDispose"}
                 /\ run'[new] = IdleFrame
                 /\ webview'[new] = NoWebview
                 /\ \A q \in Panels \ {new} : panel'[q] = panel[q]
                 /\ \A variable \in Variables :
                       Render([name |-> variable], TRUE, TRUE)
                       => /\ panel'[new].pc = "getKernel"
                          /\ panel'[new].variable.name = variable
                          /\ ~panel'[new].html
                          /\ C24_LookupBegun']_vars

\* The first panel is closed and a second one, created by the next render
\* call, is live, is what currentPanel refers to, and has its own schema
\* request in flight.
WitnessC24 ==
    /\ created = 2
    /\ panel[1].disposed
    /\ Live(2)
    /\ currentPanel = 2
    /\ panel[2].pc = "runInfo"
    /\ <<2, "info">> \in executing

\* C25: the step in which the host handles a webview message whose command
\* is neither connected nor refresh only takes the message off the channel:
\* no update is posted, and the schema, the dataset, the listeners and all
\* else of the panel stay as they are; an update is posted only in a step
\* that handles a connected or a refresh message.
TheoremC25 ==
    [][\A p \in Panels :
          LET message == Head(webview[p].toHost)
          IN  /\ (Handles(p) /\ message.command \notin {"connected", "refresh"})
                 => /\ webview'[p] = [webview[p] EXCEPT !.toHost = Tail(@)]
                    /\ panel'[p]._columns = panel[p]._columns
                    /\ panel'[p]._values = panel[p]._values
                    /\ panel'[p].listeners = panel[p].listeners
                    /\ panel' = panel
                    /\ run' = run
                    /\ executing' = executing
              /\ Len(webview'[p].toWebview) > Len(webview[p].toWebview)
                 => Handles(p) /\ message.command \in {"connected", "refresh"}]_vars

\* The webview of a panel that holds its dataset has posted two messages of
\* other commands, the host has handled every message, and the one update
\* posted, for connected, has been processed.
WitnessC25 ==
    \E p \in Panels :
        /\ panel[p].pc = "done"
        /\ panel[p]._values # Undefined
        /\ "onDidReceiveMessage" \in panel[p].listeners
        /\ webview[p].others = MaxOthers
        /\ webview[p].clicks = 0
        /\ webview[p].toHost = <<>>
        /\ webview[p].toWebview = <<>>
        /\ webview[p].last # Undefined
        /\ webview[p].previous = Undefined

\* How often d occurs in the sequence s.
C26_Count(s, d) == Cardinality({i \in 1..Len(s) : s[i] = d})

\* A call of dispose() on panel p, made within the step, has returned; the
\* list of disposables is empty, each disposable that was in it has been
\* disposed once and none twice, its listener is gone, and currentPanel is
\* cleared.  The step that closes a panel is such a call, with the same
\* outcome as the call followed statement by statement.
C26_DisposeReturns(p) ==
    panel'[p].disposeCalls > panel[p].disposeCalls
    => /\ ~panel'[p].disposing
       /\ panel'[p].disposed
       /\ panel'[p]._disposables = <<>>
       /\ \A i \in 1..Len(panel[p]._disposables) :
             LET d == panel[p]._disposables[i]
             IN  /\ C26_Count(panel'[p].released, d) = 1
                 /\ d \notin panel'[p].listeners
       /\ currentPanel' = 0
       /\ ClosePanel(p)
          => LET closed == [panel[p] EXCEPT !.disposed = TRUE, !.view = "closed"]
                 s == DisposeCall(DisposeState(closed, currentPanel), MaxSteps)
             IN  s.returned /\ panel'[p] = s.pr /\ currentPanel' = s.currentPanel

\* A call of dispose() on a panel on which dispose() has run before changes
\* nothing but the count of calls.
C26_SecondCallChangesNothing(p) ==
    (panel[p].disposeCalls > 0 /\ panel'[p].disposeCalls > panel[p].disposeCalls)
    => /\ panel' = [panel EXCEPT ![p].disposeCalls = panel'[p].disposeCalls]
       /\ currentPanel' = currentPanel
       /\ UNCHANGED <<created, run, executing, kernelRows, webview>>

\* C26: every call of dispose(), also one on a live panel, which is entered
\* again through onDidDispose, returns with the list of disposables empty,
\* every disposable that was in it disposed exactly once and currentPanel
\* cleared; and a second call of dispose() changes nothing further.
CounterC26 ==
    [][\A p \in Panels :
          C26_DisposeReturns(p) /\ C26_SecondCallChangesNothing(p)]_vars

====
